---- MODULE Spec2Model ----
(***************************************************************************)
(* Model of the todo/label repositories of rust-webapp:                    *)
(*   src/src/repositories/todo.rs   (fold_entities, TodoRepositoryForDb,   *)
(*                                   TodoRepositoryForMemory)              *)
(*   src/src/repositories/label.rs  (LabelRepositoryForDb,                 *)
(*                                   LabelRepositoryForMemory)             *)
(* The relational backend is modelled by the three tables its SQL text     *)
(* names (todos, labels, todo_labels) and the two serial id generators.    *)
(* Every statement of the relational backend is executed on &self.pool,    *)
(* never on the transaction handle, so every statement is its own          *)
(* autocommitted unit; the handle opened by pool.begin() carries no work.  *)
(***************************************************************************)
EXTENDS Integers, Sequences, FiniteSets, TLC

\* ---------------------------------------------------------------- bounds
MaxTodoId == 1
MaxStoreLen == 2
MaxLabelId == 2
MaxCmdLabels == 2
MaxRows == 3
NumCallers == 2
NumThreads == 3
PoolSize == 3

Texts == {"x", "y"}
Names == {"a", "b"}
TodoIds == 1..MaxTodoId
LabelIds == 1..MaxLabelId
Callers == 1..NumCallers
Threads == 1..NumThreads
StoreIds == 1..MaxStoreLen

\* ------------------------------------------------- Option<T> and Result
None == <<>>
Some(v) == <<v>>
IsSome(o) == o /= <<>>
Unwrap(o) == o[1]
UnwrapOr(o, d) == IF IsSome(o) THEN o[1] ELSE d
Option(S) == {None} \cup {Some(v) : v \in S}

Ok(v) == [tag |-> "Ok", val |-> v]
Err(k, i) == [tag |-> "Err", kind |-> k, id |-> i]
Panic == [tag |-> "Panic"]
IsOk(r) == r.tag = "Ok"
NotFound(i) == Err("NotFound", i)
Duplicate(i) == Err("Duplicate", i)
Unit == "()"

SeqsUpTo(S, n) == UNION {[1..k -> S] : k \in 0..n}

\* ------------------------------------------------------------- entities
Label(i, n) == [id |-> i, name |-> n]
TodoEntity(i, t, c, ls) == [id |-> i, text |-> t, completed |-> c, labels |-> ls]
TodoWithLabelFromRow(i, t, c, li, ln) ==
    [id |-> i, text |-> t, completed |-> c, label_id |-> li, label_name |-> ln]

\* ---------------------------------------------------------- fold_entities
\* index of the first aggregate of result whose id is i, 0 when there is none
FirstIndex(result, i) ==
    IF \E k \in 1..Len(result) : result[k].id = i
    THEN CHOOSE k \in 1..Len(result) :
            /\ result[k].id = i
            /\ \A j \in 1..(k - 1) : result[j].id /= i
    ELSE 0

\* one iteration of the 'outer loop; acc is Ok(result) or Panic
FoldRow(acc, row) ==
    IF ~IsOk(acc) THEN acc
    ELSE LET result == acc.val
             k == FirstIndex(result, row.id)
         IN IF k /= 0
            THEN \* todo.labels.push(Label { id: unwrap, name: unwrap })
                 IF IsSome(row.label_id) /\ IsSome(row.label_name)
                 THEN Ok([result EXCEPT ![k].labels =
                            Append(@, Label(Unwrap(row.label_id), Unwrap(row.label_name)))])
                 ELSE Panic
            ELSE IF IsSome(row.label_id)
                 THEN IF IsSome(row.label_name)
                      THEN Ok(Append(result, TodoEntity(row.id, row.text, row.completed,
                              <<Label(Unwrap(row.label_id), Unwrap(row.label_name))>>)))
                      ELSE Panic
                 ELSE Ok(Append(result, TodoEntity(row.id, row.text, row.completed, <<>>)))

RECURSIVE FoldFrom(_, _, _)
FoldFrom(acc, rows, n) ==
    IF n > Len(rows) THEN acc ELSE FoldFrom(FoldRow(acc, rows[n]), rows, n + 1)

fold_entities(rows) == FoldFrom(Ok(<<>>), rows, 1)

\* ------------------------------------------------- relational backend
\* The database reached through PgPool: the rows of the three tables in
\* heap (insertion) order and the next values of the two SERIAL id columns.
EmptyDb == [todos |-> <<>>, labels |-> <<>>, todo_labels |-> <<>>,
            todo_seq |-> 1, label_seq |-> 1]

TodoFromRow(i, t, c) == [id |-> i, text |-> t, completed |-> c]
TodoLabelRow(t, l) == [todo_id |-> t, label_id |-> l]

\* LEFT OUTER JOIN labels on labels.id = tl.label_id, for one todo_labels row
RECURSIVE JoinLabels(_, _, _, _)
JoinLabels(d, t, tl, n) ==
    IF n > Len(tl) THEN <<>>
    ELSE LET m == SelectSeq(d.labels, LAMBDA l : l.id = tl[n].label_id)
             here == IF m = <<>>
                     THEN <<TodoWithLabelFromRow(t.id, t.text, t.completed, None, None)>>
                     ELSE [k \in 1..Len(m) |->
                            TodoWithLabelFromRow(t.id, t.text, t.completed,
                                                 Some(m[k].id), Some(m[k].name))]
         IN here \o JoinLabels(d, t, tl, n + 1)

\* todos LEFT OUTER JOIN todo_labels LEFT OUTER JOIN labels, for one todos row
JoinTodo(d, t) ==
    LET tl == SelectSeq(d.todo_labels, LAMBDA r : r.todo_id = t.id)
    IN IF tl = <<>>
       THEN <<TodoWithLabelFromRow(t.id, t.text, t.completed, None, None)>>
       ELSE JoinLabels(d, t, tl, 1)

RECURSIVE JoinTodos(_, _, _)
JoinTodos(d, ts, n) ==
    IF n > Len(ts) THEN <<>> ELSE JoinTodo(d, ts[n]) \o JoinTodos(d, ts, n + 1)

\* ORDER BY id DESC / ORDER BY id ASC
RECURSIVE OrderByIdDesc(_)
OrderByIdDesc(rows) ==
    IF rows = <<>> THEN <<>>
    ELSE LET k == CHOOSE k \in 1..Len(rows) : \A j \in 1..Len(rows) : rows[j].id <= rows[k].id
         IN <<rows[k]>> \o OrderByIdDesc(SubSeq(rows, 1, k - 1) \o SubSeq(rows, k + 1, Len(rows)))

RECURSIVE OrderByIdAsc(_)
OrderByIdAsc(rows) ==
    IF rows = <<>> THEN <<>>
    ELSE LET k == CHOOSE k \in 1..Len(rows) : \A j \in 1..Len(rows) : rows[k].id <= rows[j].id
         IN <<rows[k]>> \o OrderByIdAsc(SubSeq(rows, 1, k - 1) \o SubSeq(rows, k + 1, Len(rows)))

\* the statements of TodoRepositoryForDb, each on its own pooled connection
InsertTodo(d, text) ==
    [d EXCEPT !.todos = Append(@, TodoFromRow(d.todo_seq, text, FALSE)),
              !.todo_seq = @ + 1]

InsertTodoLabels(d, id, label_ids) ==
    [d EXCEPT !.todo_labels = @ \o [k \in 1..Len(label_ids) |-> TodoLabelRow(id, label_ids[k])]]

\* DELETE FROM todo_labels that removes nothing
DeleteTodoLabels_Keep(d, id) == d

DeleteTodoLabels(d, id) ==
    [d EXCEPT !.todo_labels = SelectSeq(@, LAMBDA r : r.todo_id /= id)]

UpdateTodoRow(d, id, text, completed) ==
    [d EXCEPT !.todos = [k \in 1..Len(@) |->
        IF @[k].id = id THEN TodoFromRow(id, text, completed) ELSE @[k]]]

DeleteTodoRow(d, id) ==
    [d EXCEPT !.todos = SelectSeq(@, LAMBDA r : r.id /= id)]

\* the rows of one todo in todos and in todo_labels
TodoRows(d, id) == SelectSeq(d.todos, LAMBDA t : t.id = id)
AssociationRows(d, id) == SelectSeq(d.todo_labels, LAMBDA r : r.todo_id = id)

SelectTodoWithLabels(d, id) ==
    JoinTodos(d, SelectSeq(d.todos, LAMBDA t : t.id = id), 1)

SelectAllTodosWithLabels(d) ==
    JoinTodos(d, OrderByIdDesc(d.todos), 1)

\* TodoRepositoryForDb::find
DbTodoFind(d, id) ==
    LET todos == fold_entities(SelectTodoWithLabels(d, id))
    IN IF ~IsOk(todos) THEN Panic
       ELSE IF todos.val = <<>> THEN NotFound(id)
       ELSE Ok(Head(todos.val))

\* TodoRepositoryForDb::all
DbTodoAll(d) == fold_entities(SelectAllTodosWithLabels(d))

\* create as it would be if it echoed the inserted row instead of re-reading it
DbTodoCreate_Echo(d, payload) ==
    LET id == d.todo_seq
        d1 == InsertTodo(d, payload.text)
        d2 == InsertTodoLabels(d1, id, payload.labels)
    IN [db |-> d2, ret |-> Ok(TodoEntity(id, payload.text, FALSE, <<>>))]

\* TodoRepositoryForDb::create
DbTodoCreate(d, payload) ==
    LET id == d.todo_seq
        d1 == InsertTodo(d, payload.text)
        d2 == InsertTodoLabels(d1, id, payload.labels)
    IN [db |-> d2, ret |-> DbTodoFind(d2, id)]

\* update as it would be if an absent completed were bound as false
DbTodoUpdate_ResetCompleted(d, id, payload) ==
    LET old_todo == DbTodoFind(d, id)
    IN IF ~IsOk(old_todo) THEN [db |-> d, ret |-> old_todo]
       ELSE LET d1 == UpdateTodoRow(d, id,
                        UnwrapOr(payload.text, old_todo.val.text),
                        UnwrapOr(payload.completed, FALSE))
                d2 == IF IsSome(payload.labels)
                      THEN InsertTodoLabels(DeleteTodoLabels(d1, id), id, Unwrap(payload.labels))
                      ELSE d1
            IN [db |-> d2, ret |-> DbTodoFind(d2, id)]

\* update as it would be if a missing row were inserted instead of reported
DbTodoUpdate_Upsert(d, id, payload) ==
    LET old_todo == DbTodoFind(d, id)
        d0 == IF old_todo = NotFound(id)
              THEN [d EXCEPT !.todos = Append(@, TodoFromRow(id, "x", FALSE))]
              ELSE d
        found == DbTodoFind(d0, id)
    IN IF ~IsOk(found) THEN [db |-> d, ret |-> found]
       ELSE LET d1 == UpdateTodoRow(d0, id,
                        UnwrapOr(payload.text, found.val.text),
                        UnwrapOr(payload.completed, found.val.completed))
                d2 == IF IsSome(payload.labels)
                      THEN InsertTodoLabels(DeleteTodoLabels(d1, id), id, Unwrap(payload.labels))
                      ELSE d1
            IN [db |-> d2, ret |-> DbTodoFind(d2, id)]

\* TodoRepositoryForDb::update
DbTodoUpdate(d, id, payload) ==
    LET old_todo == DbTodoFind(d, id)
    IN IF ~IsOk(old_todo) THEN [db |-> d, ret |-> old_todo]
       ELSE LET d1 == UpdateTodoRow(d, id,
                        UnwrapOr(payload.text, old_todo.val.text),
                        UnwrapOr(payload.completed, old_todo.val.completed))
                d2 == IF IsSome(payload.labels)
                      THEN InsertTodoLabels(DeleteTodoLabels(d1, id), id, Unwrap(payload.labels))
                      ELSE d1
            IN [db |-> d2, ret |-> DbTodoFind(d2, id)]

\* delete as it would be without the statement on todo_labels
DbTodoDelete_RowOnly(d, id) ==
    [db |-> DeleteTodoRow(d, id), ret |-> Ok(Unit)]

\* TodoRepositoryForDb::delete
DbTodoDelete(d, id) ==
    [db |-> DeleteTodoRow(DeleteTodoLabels(d, id), id), ret |-> Ok(Unit)]

\* A statement's .await? can return Err(sqlx::Error): the connection is lost,
\* the pool times out, the server rejects the statement.  The call then
\* returns that error at once; tx is dropped with nothing executed on it,
\* and what the earlier statements wrote through &self.pool stays written.
Unexpected == Err("Unexpected", 0)

CreateFaults == {"none", "begin", "insert.todos", "insert.todo_labels", "commit", "find"}
UpdateFaults == {"none", "begin", "find", "update.todos", "delete.todo_labels",
                 "insert.todo_labels", "commit", "find.again"}
DeleteFaults == {"none", "begin", "delete.todo_labels", "delete.todos", "commit"}

\* TodoRepositoryForDb::create, the statement named by fault failing
DbTodoCreateWithFault(d, payload, fault) ==
    LET id == d.todo_seq
        d1 == InsertTodo(d, payload.text)
        d2 == InsertTodoLabels(d1, id, payload.labels)
    IN CASE fault \in {"begin", "insert.todos"} -> [db |-> d, ret |-> Unexpected]
         [] fault = "insert.todo_labels" -> [db |-> d1, ret |-> Unexpected]
         [] fault \in {"commit", "find"} -> [db |-> d2, ret |-> Unexpected]
         [] OTHER -> [db |-> d2, ret |-> DbTodoFind(d2, id)]

\* TodoRepositoryForDb::update, the statement named by fault failing
DbTodoUpdateWithFault(d, id, payload, fault) ==
    LET old_todo == DbTodoFind(d, id)
    IN IF fault \in {"begin", "find"} THEN [db |-> d, ret |-> Unexpected]
       ELSE IF ~IsOk(old_todo) THEN [db |-> d, ret |-> old_todo]
       ELSE LET d1 == UpdateTodoRow(d, id,
                        UnwrapOr(payload.text, old_todo.val.text),
                        UnwrapOr(payload.completed, old_todo.val.completed))
                d2 == IF IsSome(payload.labels) THEN DeleteTodoLabels(d1, id) ELSE d1
                d3 == IF IsSome(payload.labels)
                      THEN InsertTodoLabels(d2, id, Unwrap(payload.labels))
                      ELSE d1
            IN CASE fault = "update.todos" -> [db |-> d, ret |-> Unexpected]
                 [] fault = "delete.todo_labels" -> [db |-> d1, ret |-> Unexpected]
                 [] fault = "insert.todo_labels" -> [db |-> d2, ret |-> Unexpected]
                 [] fault \in {"commit", "find.again"} -> [db |-> d3, ret |-> Unexpected]
                 [] OTHER -> [db |-> d3, ret |-> DbTodoFind(d3, id)]

\* TodoRepositoryForDb::delete, the statement named by fault failing
DbTodoDeleteWithFault(d, id, fault) ==
    CASE fault \in {"begin", "delete.todo_labels"} -> [db |-> d, ret |-> Unexpected]
      [] fault = "delete.todos" -> [db |-> DeleteTodoLabels(d, id), ret |-> Unexpected]
      [] fault = "commit" -> [db |-> DeleteTodoRow(DeleteTodoLabels(d, id), id), ret |-> Unexpected]
      [] OTHER -> DbTodoDelete(d, id)

\* the statements of LabelRepositoryForDb
SelectLabelByName(d, name) ==
    LET m == SelectSeq(d.labels, LAMBDA l : l.name = name)
    IN IF m = <<>> THEN None ELSE Some(Head(m))

InsertLabel(d, name) ==
    [d EXCEPT !.labels = Append(@, Label(d.label_seq, name)),
              !.label_seq = @ + 1]

DeleteLabelRow(d, id) ==
    [d EXCEPT !.labels = SelectSeq(@, LAMBDA l : l.id /= id)]

\* create as it would be with the commented-out "return Ok(label)"
DbLabelCreate_ReturnExisting(d, payload) ==
    LET optional_label == SelectLabelByName(d, payload.name)
    IN IF IsSome(optional_label)
       THEN [db |-> d, ret |-> Ok(Unwrap(optional_label))]
       ELSE [db |-> InsertLabel(d, payload.name),
             ret |-> Ok(Label(d.label_seq, payload.name))]

\* LabelRepositoryForDb::create
DbLabelCreate(d, payload) ==
    LET optional_label == SelectLabelByName(d, payload.name)
    IN IF IsSome(optional_label)
       THEN [db |-> d, ret |-> Duplicate(Unwrap(optional_label).id)]
       ELSE [db |-> InsertLabel(d, payload.name),
             ret |-> Ok(Label(d.label_seq, payload.name))]

\* LabelRepositoryForDb::all
DbLabelAll(d) == Ok(OrderByIdAsc(d.labels))

\* LabelRepositoryForDb::delete
DbLabelDelete(d, id) == [db |-> DeleteLabelRow(d, id), ret |-> Ok(Unit)]

\* --------------------------------------------------- in-memory backend
\* HashMap<i32, _>: a function whose domain is the set of stored keys
EmptyStore == <<>>
Insert(store, k, v) == [j \in DOMAIN store \cup {k} |-> IF j = k THEN v ELSE store[j]]
Remove(store, k) == [j \in DOMAIN store \ {k} |-> store[j]]
StoreLen(store) == Cardinality(DOMAIN store)

\* HashMap::values() iterates in an unspecified order: every ordering of
\* the stored values is a possible Vec
ValuesOrders(store) ==
    {[k \in 1..StoreLen(store) |-> store[f[k]]] :
        f \in {g \in [1..StoreLen(store) -> DOMAIN store] :
                 \A a, b \in 1..StoreLen(store) : a /= b => g[a] /= g[b]}}

\* TodoRepositoryForMemory::create
MemTodoCreate(store, payload) ==
    LET id == StoreLen(store) + 1
        todo == TodoEntity(id, payload.text, FALSE, <<>>)
    IN [store |-> Insert(store, id, todo), ret |-> Ok(todo)]

\* TodoRepositoryForMemory::find
MemTodoFind(store, id) ==
    IF id \in DOMAIN store THEN Ok(store[id]) ELSE NotFound(id)

\* update that inserts first and takes the entry insert displaced as the
\* proof that the todo existed
MemTodoUpdate_InsertThenCheck(store, id, payload) ==
    LET todo == TodoEntity(id, UnwrapOr(payload.text, IF id \in DOMAIN store THEN store[id].text ELSE ""),
                           UnwrapOr(payload.completed, id \in DOMAIN store /\ store[id].completed), <<>>)
    IN [store |-> Insert(store, id, todo),
        ret |-> IF id \in DOMAIN store THEN Ok(todo) ELSE NotFound(id)]

\* TodoRepositoryForMemory::update
MemTodoUpdate(store, id, payload) ==
    IF id \notin DOMAIN store THEN [store |-> store, ret |-> NotFound(id)]
    ELSE LET todo == TodoEntity(id, UnwrapOr(payload.text, store[id].text),
                                UnwrapOr(payload.completed, store[id].completed), <<>>)
         IN [store |-> Insert(store, id, todo), ret |-> Ok(todo)]

\* delete that empties the map
MemTodoDelete_Clear(store, id) ==
    IF id \in DOMAIN store THEN [store |-> EmptyStore, ret |-> Ok(Unit)]
    ELSE [store |-> store, ret |-> NotFound(id)]

\* TodoRepositoryForMemory::delete
MemTodoDelete(store, id) ==
    IF id \in DOMAIN store THEN [store |-> Remove(store, id), ret |-> Ok(Unit)]
    ELSE [store |-> store, ret |-> NotFound(id)]

\* LabelRepositoryForMemory::create
MemLabelCreate(store, payload) ==
    LET id == StoreLen(store) + 1
        label == Label(id, payload.name)
    IN [store |-> Insert(store, id, label), ret |-> Ok(label)]

\* LabelRepositoryForMemory::delete
MemLabelDelete(store, id) ==
    IF id \in DOMAIN store THEN [store |-> Remove(store, id), ret |-> Ok(Unit)]
    ELSE [store |-> store, ret |-> NotFound(id)]

\* ------------------------------------------------------------- commands
CreateTodo == [text : Texts, labels : SeqsUpTo(LabelIds, MaxCmdLabels)]
UpdateTodo == [text : Option(Texts), completed : Option(BOOLEAN),
               labels : Option(SeqsUpTo(LabelIds, MaxCmdLabels))]
CreateLabel == [name : Names]

\* ---------------------------------------------------------------- state
VARIABLES
    backend,     \* the repository the callers drive: "db" (both relational repositories,
                 \* one database), "memory.todo" or "memory.label" (each in-memory
                 \* repository owns its store and shares nothing with the other),
                 \* "memory" (both in-memory repositories behind one application)
    db,          \* the database behind PgPool
    todoStore,   \* TodoRepositoryForMemory.store
    labelStore,  \* LabelRepositoryForMemory.store
    last,        \* the last repository call: operation, arguments, what was there before, outcome
    rows,        \* argument of a direct fold_entities call
    folded,      \* its outcome
    pc,          \* per concurrent caller: position inside the call it is running
    call,        \* per concurrent caller: the call's arguments, locals and outcome
    lock,        \* the RwLock around TodoRepositoryForMemory.store: who holds a guard
    pool,        \* PgPool: the number of idle connections
    max_connections  \* PgPool: the number of connections it was built with

vars == <<backend, db, todoStore, labelStore, last, rows, folded, pc, call, lock, pool,
         max_connections>>

NotFolded == [tag |-> "None"]
NoCall == [op |-> "none", id |-> 0, payload |-> <<>>, pre |-> <<>>, ret |-> [tag |-> "None"]]
Called(o, i, p, s, r) == [op |-> o, id |-> i, payload |-> p, pre |-> s, ret |-> r]

foldVars == <<rows, folded>>
raceVars == <<pc, call>>
syncVars == <<lock, pool, max_connections>>

\* RwLock::default(): no guard handed out
FreeLock == [readers |-> {}, writer |-> 0]

\* ------------------------------------- sequential callers of one backend
Init ==
    /\ backend \in {"db", "memory.todo", "memory.label"}
    /\ db = EmptyDb
    /\ todoStore = EmptyStore
    /\ labelStore = EmptyStore
    /\ last = NoCall
    /\ rows = <<>>
    /\ folded = NotFolded
    /\ pc = [c \in Callers |-> "idle"]
    /\ call = [c \in Callers |-> <<>>]
    /\ lock = FreeLock
    /\ pool = PoolSize
    /\ max_connections = PoolSize

\* a call on the relational backend; pre is what a caller could have read
\* just before it: find(id) for a todo write, the labels table for a label call
DbStep(o, i, p, pre, r) ==
    /\ backend = "db"
    /\ db' = r.db
    /\ last' = Called(o, i, p, pre, r.ret)
    /\ UNCHANGED <<backend, todoStore, labelStore, foldVars, raceVars, syncVars>>

TodoDbCreate ==
    /\ db.todo_seq <= MaxTodoId
    /\ \E payload \in CreateTodo :
          DbStep("todo.create", db.todo_seq, payload, <<>>, DbTodoCreate(db, payload))

TodoDbFind ==
    \E id \in TodoIds :
        DbStep("todo.find", id, <<>>, <<>>, [db |-> db, ret |-> DbTodoFind(db, id)])

TodoDbAll == DbStep("todo.all", 0, <<>>, <<>>, [db |-> db, ret |-> DbTodoAll(db)])

TodoDbUpdate ==
    \E id \in TodoIds, payload \in UpdateTodo :
        DbStep("todo.update", id, payload, DbTodoFind(db, id), DbTodoUpdate(db, id, payload))

TodoDbDelete ==
    \E id \in TodoIds :
        DbStep("todo.delete", id, <<>>, DbTodoFind(db, id), DbTodoDelete(db, id))

\* the SERIAL column is capped: a create that would insert needs a free id
LabelDbCreate ==
    \E payload \in CreateLabel :
        /\ IsSome(SelectLabelByName(db, payload.name)) \/ db.label_seq <= MaxLabelId
        /\ DbStep("label.create", 0, payload, db.labels, DbLabelCreate(db, payload))

LabelDbAll == DbStep("label.all", 0, <<>>, db.labels, [db |-> db, ret |-> DbLabelAll(db)])

LabelDbDelete ==
    \E id \in LabelIds :
        DbStep("label.delete", id, <<>>, db.labels, DbLabelDelete(db, id))

\* a call on an in-memory repository, pre as for the relational backend
MemTodoStep(o, i, p, pre, r) ==
    /\ backend \in {"memory.todo", "memory"}
    /\ todoStore' = r.store
    /\ last' = Called(o, i, p, pre, r.ret)
    /\ UNCHANGED <<backend, db, labelStore, foldVars, raceVars, syncVars>>

MemLabelStep(o, i, p, r) ==
    /\ backend \in {"memory.label", "memory"}
    /\ labelStore' = r.store
    /\ last' = Called(o, i, p, labelStore, r.ret)
    /\ UNCHANGED <<backend, db, todoStore, foldVars, raceVars, syncVars>>

TodoMemCreate ==
    /\ StoreLen(todoStore) < MaxStoreLen
    /\ \E payload \in CreateTodo :
          MemTodoStep("todo.create", StoreLen(todoStore) + 1, payload, <<>>,
                      MemTodoCreate(todoStore, payload))

TodoMemFind ==
    \E id \in StoreIds :
        MemTodoStep("todo.find", id, <<>>, <<>>,
                    [store |-> todoStore, ret |-> MemTodoFind(todoStore, id)])

TodoMemAll ==
    \E todos \in ValuesOrders(todoStore) :
        MemTodoStep("todo.all", 0, <<>>, <<>>, [store |-> todoStore, ret |-> Ok(todos)])

TodoMemUpdate ==
    \E id \in StoreIds, payload \in UpdateTodo :
        MemTodoStep("todo.update", id, payload, MemTodoFind(todoStore, id),
                    MemTodoUpdate(todoStore, id, payload))

TodoMemDelete ==
    \E id \in StoreIds :
        MemTodoStep("todo.delete", id, <<>>, MemTodoFind(todoStore, id),
                    MemTodoDelete(todoStore, id))

LabelMemCreate ==
    /\ StoreLen(labelStore) < MaxStoreLen
    /\ \E payload \in CreateLabel :
          MemLabelStep("label.create", StoreLen(labelStore) + 1, payload,
                       MemLabelCreate(labelStore, payload))

LabelMemAll ==
    \E labels \in ValuesOrders(labelStore) :
        MemLabelStep("label.all", 0, <<>>, [store |-> labelStore, ret |-> Ok(labels)])

LabelMemDelete ==
    \E id \in StoreIds : MemLabelStep("label.delete", id, <<>>, MemLabelDelete(labelStore, id))

Next ==
    \/ TodoDbCreate \/ TodoDbFind \/ TodoDbAll \/ TodoDbUpdate \/ TodoDbDelete
    \/ LabelDbCreate \/ LabelDbAll \/ LabelDbDelete
    \/ TodoMemCreate \/ TodoMemFind \/ TodoMemAll \/ TodoMemUpdate \/ TodoMemDelete
    \/ LabelMemCreate \/ LabelMemAll \/ LabelMemDelete

Spec == Init /\ [][Next]_vars

\* ------------------------------------------- fold_entities called directly
\* The rows the driving queries can yield: label_id and label_name are the
\* two columns of one labels row of the outer join (INSERT INTO labels always
\* binds a name), so they are null together or not at all.
FoldTodoIds == {1, 2}
NullableLabels ==
    {<<None, None>>, <<Some(1), Some("a")>>, <<Some(2), Some("b")>>}
JoinRows ==
    {TodoWithLabelFromRow(i, t, FALSE, l[1], l[2]) :
        i \in FoldTodoIds, t \in Texts, l \in NullableLabels}

InitFold ==
    /\ backend = "db"
    /\ db = EmptyDb
    /\ todoStore = EmptyStore
    /\ labelStore = EmptyStore
    /\ last = NoCall
    /\ rows \in SeqsUpTo(JoinRows, MaxRows)
    /\ folded = NotFolded
    /\ pc = [c \in Callers |-> "idle"]
    /\ call = [c \in Callers |-> <<>>]
    /\ lock = FreeLock
    /\ pool = PoolSize
    /\ max_connections = PoolSize

ApplyFold ==
    /\ folded = NotFolded
    /\ folded' = fold_entities(rows)
    /\ UNCHANGED <<backend, db, todoStore, labelStore, last, rows, raceVars, syncVars>>

NextFold == ApplyFold

SpecFold == InitFold /\ [][NextFold]_vars

\* ------------------------- concurrent callers of the relational backend
\* Each caller runs the statements of one call one at a time; between two
\* statements of a call any other caller may run one of its own.
InitConcurrent ==
    /\ backend = "db"
    /\ db = EmptyDb
    /\ todoStore = EmptyStore
    /\ labelStore = EmptyStore
    /\ last = NoCall
    /\ rows = <<>>
    /\ folded = NotFolded
    /\ pc = [c \in Callers |-> "idle"]
    /\ call = [c \in Callers |-> <<>>]
    /\ lock = FreeLock
    /\ pool = PoolSize
    /\ max_connections = PoolSize

ConcurrentStep(c, next, d, locals) ==
    /\ pc' = [pc EXCEPT ![c] = next]
    /\ call' = [call EXCEPT ![c] = locals]
    /\ db' = d
    /\ UNCHANGED <<backend, todoStore, labelStore, last, foldVars, syncVars>>

\* LabelRepositoryForDb::create, the SELECT
LabelCreateSelect(c) ==
    /\ pc[c] = "idle"
    /\ \E payload \in CreateLabel :
          ConcurrentStep(c, "label.create.selected", db,
              [payload |-> payload,
               optional_label |-> SelectLabelByName(db, payload.name),
               ret |-> <<>>])

\* LabelRepositoryForDb::create, the early return
LabelCreateDuplicate(c) ==
    /\ pc[c] = "label.create.selected"
    /\ IsSome(call[c].optional_label)
    /\ ConcurrentStep(c, "idle", db,
          [call[c] EXCEPT !.ret = Duplicate(Unwrap(call[c].optional_label).id)])

\* LabelRepositoryForDb::create, the INSERT
LabelCreateInsert(c) ==
    /\ pc[c] = "label.create.selected"
    /\ ~IsSome(call[c].optional_label)
    /\ db.label_seq <= MaxLabelId
    /\ ConcurrentStep(c, "idle", InsertLabel(db, call[c].payload.name),
          [call[c] EXCEPT !.ret = Ok(Label(db.label_seq, call[c].payload.name))])

\* LabelRepositoryForDb::delete, its one statement
LabelDeleteStatement(c) ==
    /\ pc[c] = "idle"
    /\ \E id \in LabelIds :
          ConcurrentStep(c, "idle", DeleteLabelRow(db, id),
              [payload |-> id, optional_label |-> None, ret |-> Ok(Unit)])

NextConcurrent ==
    \E c \in Callers :
        \/ LabelCreateSelect(c)
        \/ LabelCreateDuplicate(c)
        \/ LabelCreateInsert(c)
        \/ LabelDeleteStatement(c)

SpecConcurrent == InitConcurrent /\ [][NextConcurrent]_vars

\* ------------- sequential callers of the relational backend, with failures
\* Any statement of a todo write may fail; the labels are created as before.
FaultCalled(o, i, s, r, f) ==
    [op |-> o, id |-> i, pre |-> s, ret |-> r, fault |-> f]

InitFaults ==
    /\ backend = "db"
    /\ db = EmptyDb
    /\ todoStore = EmptyStore
    /\ labelStore = EmptyStore
    /\ last = NoCall
    /\ rows = <<>>
    /\ folded = NotFolded
    /\ pc = [c \in Callers |-> "idle"]
    /\ call = [c \in Callers |-> <<>>]
    /\ lock = FreeLock
    /\ pool = PoolSize
    /\ max_connections = PoolSize

\* pre is the two tables a todo write touches, as they were when the call began
FaultStep(o, i, f, r) ==
    /\ db' = r.db
    /\ last' = FaultCalled(o, i, [todos |-> db.todos, todo_labels |-> db.todo_labels], r.ret, f)
    /\ UNCHANGED <<backend, todoStore, labelStore, foldVars, raceVars, syncVars>>

TodoDbCreateWithFault ==
    /\ db.todo_seq <= MaxTodoId
    /\ \E payload \in CreateTodo, fault \in CreateFaults :
          FaultStep("todo.create", db.todo_seq, fault,
                    DbTodoCreateWithFault(db, payload, fault))

\* a statement can fail only if the call gets as far as executing it
TodoDbUpdateWithFault ==
    \E id \in TodoIds, payload \in UpdateTodo, fault \in UpdateFaults :
        /\ fault \notin {"none", "begin", "find"} => IsOk(DbTodoFind(db, id))
        /\ fault \in {"delete.todo_labels", "insert.todo_labels"} => IsSome(payload.labels)
        /\ FaultStep("todo.update", id, fault,
                     DbTodoUpdateWithFault(db, id, payload, fault))

TodoDbDeleteWithFault ==
    \E id \in TodoIds, fault \in DeleteFaults :
        FaultStep("todo.delete", id, fault, DbTodoDeleteWithFault(db, id, fault))

NextFaults ==
    \/ LabelDbCreate
    \/ TodoDbCreateWithFault
    \/ TodoDbUpdateWithFault
    \/ TodoDbDeleteWithFault

SpecFaults == InitFaults /\ [][NextFaults]_vars

\* ------------------- sequential callers of both in-memory repositories
\* create_app(TodoRepositoryForMemory::new(), LabelRepositoryForMemory::new()):
\* the label ids of a todo command name labels of the Label repository.
InitMemory ==
    /\ backend = "memory"
    /\ db = EmptyDb
    /\ todoStore = EmptyStore
    /\ labelStore = EmptyStore
    /\ last = NoCall
    /\ rows = <<>>
    /\ folded = NotFolded
    /\ pc = [c \in Callers |-> "idle"]
    /\ call = [c \in Callers |-> <<>>]
    /\ lock = FreeLock
    /\ pool = PoolSize
    /\ max_connections = PoolSize

NextMemory ==
    \/ TodoMemCreate \/ TodoMemFind \/ TodoMemAll \/ TodoMemUpdate \/ TodoMemDelete
    \/ LabelMemCreate \/ LabelMemAll \/ LabelMemDelete

SpecMemory == InitMemory /\ [][NextMemory]_vars

\* ------------- concurrent callers of the in-memory Todo repository
\* std::sync::RwLock<TodoDatas>: read() hands out a shared guard unless a
\* writer holds the lock, write() an exclusive guard once nobody holds it;
\* a guard is released when the method that took it returns and drops it.
ReadAvailable_IgnoreWriter(l) == TRUE

ReadAvailable(l) == l.writer = 0

WriteAvailable_IgnoreReaders(l) == l.writer = 0

WriteAvailable(l) == l.writer = 0 /\ l.readers = {}

ReadGuard(l, c) == [l EXCEPT !.readers = @ \cup {c}]
WriteGuard(l, c) == [l EXCEPT !.writer = c]

DropGuard_Leak(l, c) == l

DropGuard(l, c) ==
    [readers |-> l.readers \ {c}, writer |-> IF l.writer = c THEN 0 ELSE l.writer]

ReadOps == {"find", "all"}
WriteOps == {"create", "update", "delete"}
NoRet == [tag |-> "None"]

\* the commands the concurrent callers send
LockCreateTodo == {p \in CreateTodo : p.labels = <<>>}
LockUpdateTodo == {[text |-> Some("y"), completed |-> None, labels |-> None],
                   [text |-> None, completed |-> Some(TRUE), labels |-> None]}

\* the map entry of id while HashMap::insert is still writing it
PartiallyInserted(id) == [id |-> id, partial |-> TRUE]

LockInit(threads) ==
    /\ backend = "memory.todo"
    /\ db = EmptyDb
    /\ todoStore = EmptyStore
    /\ labelStore = EmptyStore
    /\ last = NoCall
    /\ rows = <<>>
    /\ folded = NotFolded
    /\ pc = [c \in threads |-> "idle"]
    /\ call = [c \in threads |-> <<>>]
    /\ lock = FreeLock
    /\ pool = PoolSize
    /\ max_connections = PoolSize

InitLock == LockInit(Callers)

LockStep(c, next, locals, l, store) ==
    /\ pc' = [pc EXCEPT ![c] = next]
    /\ call' = [call EXCEPT ![c] = locals]
    /\ lock' = l
    /\ todoStore' = store
    /\ UNCHANGED <<backend, db, labelStore, last, foldVars, pool, max_connections>>

MemCall(o, i, p) == [op |-> o, id |-> i, payload |-> p, ret |-> NoRet]

\* the calls of the handler threads
LockCalls ==
    {MemCall("create", 0, p) : p \in LockCreateTodo}
        \cup {MemCall("find", i, <<>>) : i \in StoreIds}
        \cup {MemCall("all", 0, <<>>)}
        \cup {MemCall("update", i, p) : i \in StoreIds, p \in LockUpdateTodo}
        \cup {MemCall("delete", i, <<>>) : i \in StoreIds}

\* a handler thread enters a repository method
MemEnter(c, calls) ==
    /\ pc[c] = "idle"
    /\ \E m \in calls :
          /\ m.op = "create" => StoreLen(todoStore) < MaxStoreLen
          /\ LockStep(c, "lock", m, lock, todoStore)

MemBegin(c) == MemEnter(c, LockCalls)

\* read_store_ref
MemAcquireRead(c) ==
    /\ pc[c] = "lock"
    /\ call[c].op \in ReadOps
    /\ ReadAvailable(lock)
    /\ LockStep(c, "locked", call[c], ReadGuard(lock, c), todoStore)

\* write_store_ref
MemAcquireWrite(c) ==
    /\ pc[c] = "lock"
    /\ call[c].op \in WriteOps
    /\ WriteAvailable(lock)
    /\ LockStep(c, "locked", call[c], WriteGuard(lock, c), todoStore)

\* create: the id is computed and HashMap::insert starts writing the entry
MemCreateInsertBegin(c) ==
    /\ pc[c] = "locked"
    /\ call[c].op = "create"
    /\ LET r == MemTodoCreate(todoStore, call[c].payload)
       IN LockStep(c, "inserting", [call[c] EXCEPT !.id = r.ret.val.id, !.ret = r.ret],
                   lock, Insert(todoStore, r.ret.val.id, PartiallyInserted(r.ret.val.id)))

\* create: the entry is written
MemCreateInsertEnd(c) ==
    /\ pc[c] = "inserting"
    /\ LockStep(c, "done", call[c], lock, Insert(todoStore, call[c].id, call[c].ret.val))

MemFindBody(c) ==
    /\ pc[c] = "locked"
    /\ call[c].op = "find"
    /\ LockStep(c, "done", [call[c] EXCEPT !.ret = MemTodoFind(todoStore, call[c].id)],
                lock, todoStore)

MemAllBody(c) ==
    /\ pc[c] = "locked"
    /\ call[c].op = "all"
    /\ \E todos \in ValuesOrders(todoStore) :
          LockStep(c, "done", [call[c] EXCEPT !.ret = Ok(todos)], lock, todoStore)

MemUpdateBody(c) ==
    /\ pc[c] = "locked"
    /\ call[c].op = "update"
    /\ LET r == MemTodoUpdate(todoStore, call[c].id, call[c].payload)
       IN LockStep(c, "done", [call[c] EXCEPT !.ret = r.ret], lock, r.store)

MemDeleteBody(c) ==
    /\ pc[c] = "locked"
    /\ call[c].op = "delete"
    /\ LET r == MemTodoDelete(todoStore, call[c].id)
       IN LockStep(c, "done", [call[c] EXCEPT !.ret = r.ret], lock, r.store)

\* the method returns: its guard goes out of scope
MemReturn(c) ==
    /\ pc[c] = "done"
    /\ LockStep(c, "idle", <<>>, DropGuard(lock, c), todoStore)

MemAcquire(c) == MemAcquireRead(c) \/ MemAcquireWrite(c)

MemProceed(c) ==
    \/ MemCreateInsertBegin(c) \/ MemCreateInsertEnd(c)
    \/ MemFindBody(c) \/ MemAllBody(c) \/ MemUpdateBody(c) \/ MemDeleteBody(c)
    \/ MemReturn(c)

NextLock == \E c \in Callers : MemBegin(c) \/ MemAcquire(c) \/ MemProceed(c)

SpecLock == InitLock /\ [][NextLock]_vars

\* NumThreads handler threads, each calling one operation after another
FairCalls ==
    {m \in LockCalls : /\ m.id \in {0, 1}
                       /\ m.op = "create" => m.payload.text = "x"
                       /\ m.op = "update" => IsSome(m.payload.text)}

InitLockFair == LockInit(Threads)

MemBeginFair(c) == MemEnter(c, FairCalls)

NextLockFair == \E c \in Threads : MemBeginFair(c) \/ MemAcquire(c) \/ MemProceed(c)

\* Threads are scheduled fairly, and a thread whose lock request can be
\* granted again and again is eventually granted it.
SpecLockFair ==
    /\ InitLockFair
    /\ [][NextLockFair]_vars
    /\ \A c \in Threads : WF_vars(MemProceed(c)) /\ SF_vars(MemAcquire(c))

\* ------- concurrent callers of TodoRepositoryForDb, statement by statement
\* pool.begin() checks a connection out of the pool for tx and keeps it until
\* tx is committed or dropped; every statement is executed on &self.pool, so
\* it needs a further connection, checked out and returned by the executor.
\* A call is at the statement pc names; any statement may fail (an error of
\* the server, or no connection within the pool's acquire timeout), and the
\* call then returns the error, dropping tx.
ConcurrentCreateTodo == {[text |-> "x", labels |-> ls] : ls \in {<<>>, <<1>>}}
ConcurrentUpdateTodo ==
    {[text |-> Some("y"), completed |-> None, labels |-> None],
     [text |-> None, completed |-> Some(TRUE), labels |-> None],
     [text |-> None, completed |-> None, labels |-> Some(<<1>>)]}

\* the database once LabelRepositoryForDb::create has stored label 1
DbWithLabel == DbLabelCreate(EmptyDb, [name |-> "a"]).db

\* dropping or committing tx without giving its connection back
ReleaseTx_Leak(idle, held) == idle

\* Transaction::commit / drop: the connection of tx goes back to the pool
ReleaseTx(idle, held) == IF held THEN idle + 1 ELSE idle

DbCall(o, i, p) ==
    [op |-> o, id |-> i, payload |-> p, tx |-> FALSE, old_todo |-> NoRet, ret |-> NoRet]

InitStatements ==
    /\ backend = "db"
    /\ db = DbWithLabel
    /\ todoStore = EmptyStore
    /\ labelStore = EmptyStore
    /\ last = NoCall
    /\ rows = <<>>
    /\ folded = NotFolded
    /\ pc = [c \in Callers |-> "idle"]
    /\ call = [c \in Callers |-> DbCall("none", 0, <<>>)]
    /\ lock = FreeLock
    /\ max_connections \in NumCallers..PoolSize
    /\ pool = max_connections

StatementStep(c, next, locals, d, idle) ==
    /\ pc' = [pc EXCEPT ![c] = next]
    /\ call' = [call EXCEPT ![c] = locals]
    /\ db' = d
    /\ pool' = idle
    /\ UNCHANGED <<backend, todoStore, labelStore, last, foldVars, lock, max_connections>>

\* the call returns ret; tx, if still open, is dropped
ReturnStep(c, ret, d) ==
    StatementStep(c, "idle", [call[c] EXCEPT !.ret = ret, !.tx = FALSE], d,
                  ReleaseTx(pool, call[c].tx))

\* creates that have not yet drawn their id from the SERIAL column
PendingCreates == {c \in Callers : pc[c] \in {"create.begin", "create.insert.todos"}}

StartCall(c) ==
    /\ pc[c] = "idle"
    /\ \/ /\ db.todo_seq + Cardinality(PendingCreates) <= MaxTodoId
          /\ \E p \in ConcurrentCreateTodo :
                StatementStep(c, "create.begin", DbCall("create", 0, p), db, pool)
       \/ \E i \in TodoIds, p \in ConcurrentUpdateTodo :
             StatementStep(c, "update.begin", DbCall("update", i, p), db, pool)
       \/ \E i \in TodoIds :
             StatementStep(c, "delete.begin", DbCall("delete", i, <<>>), db, pool)

\* let tx = self.pool.begin().await?
TxBegin(c) ==
    /\ pc[c] \in {"create.begin", "update.begin", "delete.begin"}
    /\ pool > 0
    /\ StatementStep(c, CASE pc[c] = "create.begin" -> "create.insert.todos"
                          [] pc[c] = "update.begin" -> "update.find"
                          [] pc[c] = "delete.begin" -> "delete.todo_labels",
                     [call[c] EXCEPT !.tx = TRUE], db, pool - 1)

\* tx.commit().await?
TxCommit(c) ==
    /\ pc[c] \in {"create.commit", "update.commit", "delete.commit"}
    /\ IF pc[c] = "delete.commit"
       THEN ReturnStep(c, Ok(Unit), db)
       ELSE StatementStep(c, IF pc[c] = "create.commit" THEN "create.find" ELSE "update.find.again",
                          [call[c] EXCEPT !.tx = FALSE], db, ReleaseTx(pool, call[c].tx))

\* create: INSERT INTO todos ... RETURNING *
CreateInsertTodos(c) ==
    /\ pc[c] = "create.insert.todos"
    /\ pool > 0
    /\ StatementStep(c, "create.insert.todo_labels", [call[c] EXCEPT !.id = db.todo_seq],
                     InsertTodo(db, call[c].payload.text), pool)

\* The association table as the schema declares it: plain (todo_id,
\* label_id) rows whose ids are checked against no other table, so that a
\* row may outlive the todo or the label it names.
TodoLabelsAccepts(d, id, label_ids) == TRUE

\* create: INSERT INTO todo_labels
CreateInsertTodoLabels(c) ==
    /\ pc[c] = "create.insert.todo_labels"
    /\ pool > 0
    /\ IF TodoLabelsAccepts(db, call[c].id, call[c].payload.labels)
       THEN StatementStep(c, "create.commit", call[c],
                          InsertTodoLabels(db, call[c].id, call[c].payload.labels), pool)
       ELSE ReturnStep(c, Unexpected, db)

\* create, update: the closing self.find(id)
FindAgain(c) ==
    /\ pc[c] \in {"create.find", "update.find.again"}
    /\ pool > 0
    /\ ReturnStep(c, DbTodoFind(db, call[c].id), db)

\* update: let old_todo = self.find(id).await?
UpdateFind(c) ==
    /\ pc[c] = "update.find"
    /\ pool > 0
    /\ LET old_todo == DbTodoFind(db, call[c].id)
       IN IF IsOk(old_todo)
          THEN StatementStep(c, "update.todos", [call[c] EXCEPT !.old_todo = old_todo], db, pool)
          ELSE ReturnStep(c, old_todo, db)

\* update: UPDATE todos ... RETURNING * with fetch_one, an error when no row is left
UpdateTodos(c) ==
    /\ pc[c] = "update.todos"
    /\ pool > 0
    /\ IF TodoRows(db, call[c].id) = <<>>
       THEN ReturnStep(c, Unexpected, db)
       ELSE StatementStep(c,
                IF IsSome(call[c].payload.labels) THEN "update.delete.todo_labels"
                ELSE "update.commit",
                call[c],
                UpdateTodoRow(db, call[c].id,
                    UnwrapOr(call[c].payload.text, call[c].old_todo.val.text),
                    UnwrapOr(call[c].payload.completed, call[c].old_todo.val.completed)),
                pool)

\* update: DELETE FROM todo_labels
UpdateDeleteTodoLabels(c) ==
    /\ pc[c] = "update.delete.todo_labels"
    /\ pool > 0
    /\ StatementStep(c, "update.insert.todo_labels", call[c],
                     DeleteTodoLabels(db, call[c].id), pool)

\* update: INSERT INTO todo_labels
UpdateInsertTodoLabels(c) ==
    /\ pc[c] = "update.insert.todo_labels"
    /\ pool > 0
    /\ IF TodoLabelsAccepts(db, call[c].id, Unwrap(call[c].payload.labels))
       THEN StatementStep(c, "update.commit", call[c],
                          InsertTodoLabels(db, call[c].id, Unwrap(call[c].payload.labels)), pool)
       ELSE ReturnStep(c, Unexpected, db)

\* delete: DELETE FROM todo_labels
DeleteTodoLabelsStatement(c) ==
    /\ pc[c] = "delete.todo_labels"
    /\ pool > 0
    /\ StatementStep(c, "delete.todos", call[c], DeleteTodoLabels(db, call[c].id), pool)

\* delete: DELETE FROM todos
DeleteTodosStatement(c) ==
    /\ pc[c] = "delete.todos"
    /\ pool > 0
    /\ StatementStep(c, "delete.commit", call[c], DeleteTodoRow(db, call[c].id), pool)

\* .await? yields an error: the call returns it
StatementFails(c) ==
    /\ pc[c] /= "idle"
    /\ ReturnStep(c, Unexpected, db)

NextStatements ==
    \E c \in Callers :
        \/ StartCall(c) \/ TxBegin(c) \/ TxCommit(c)
        \/ CreateInsertTodos(c) \/ CreateInsertTodoLabels(c) \/ FindAgain(c)
        \/ UpdateFind(c) \/ UpdateTodos(c)
        \/ UpdateDeleteTodoLabels(c) \/ UpdateInsertTodoLabels(c)
        \/ DeleteTodoLabelsStatement(c) \/ DeleteTodosStatement(c)
        \/ StatementFails(c)

SpecStatements == InitStatements /\ [][NextStatements]_vars

\* ------------------------------------------------- the HTTP boundary
\* #[validate(length(min = 1))], #[validate(length(max = 100))]
MinLength == 1
MaxLength == 100

RECURSIVE Repeat(_, _)
Repeat(ch, n) == IF n = 0 THEN "" ELSE ch \o Repeat(ch, n - 1)

\* request texts of the lengths around the two limits
RawTexts == {Repeat("x", n) : n \in {0, MinLength, MaxLength, MaxLength + 1}}
RawLabelIds == {<<>>, <<1>>}

\* request bodies: one that is not JSON of any object, and JSON objects with
\* each field present or missing
Malformed == [json |-> "malformed"]
RawCreateTodo ==
    {Malformed} \cup [json : {"object"}, text : Option(RawTexts), labels : Option(RawLabelIds)]
RawUpdateTodo ==
    {Malformed} \cup [json : {"object"}, text : Option(RawTexts),
                      completed : Option(BOOLEAN), labels : Option(RawLabelIds)]
RawCreateLabel ==
    {Malformed} \cup [json : {"object"}, name : Option(RawTexts)]

Rejection(kind, rules) ==
    [tag |-> "Rejected", status |-> "BAD_REQUEST", message |-> kind, rules |-> rules]

\* Json::<T>::from_request: serde needs every field that is not an Option
Deserialize(shape, body) ==
    IF body = Malformed THEN Rejection("Json parse error", {})
    ELSE CASE shape = "CreateTodo" ->
                IF IsSome(body.text) /\ IsSome(body.labels)
                THEN Ok([text |-> Unwrap(body.text), labels |-> Unwrap(body.labels)])
                ELSE Rejection("Json parse error", {})
           [] shape = "UpdateTodo" ->
                Ok([text |-> body.text, completed |-> body.completed, labels |-> body.labels])
           [] shape = "CreateLabel" ->
                IF IsSome(body.name) THEN Ok([name |-> Unwrap(body.name)])
                ELSE Rejection("Json parse error", {})

\* the messages of the length rules a string violates
LengthErrors(str, over) ==
    (IF Len(str) < MinLength THEN {"Can not be empty"} ELSE {})
        \cup (IF Len(str) > MaxLength THEN {over} ELSE {})

\* Validate::validate as derived for the three commands
Validate(shape, value) ==
    CASE shape = "CreateTodo" -> LengthErrors(value.text, "Over text length")
      [] shape = "UpdateTodo" ->
            IF IsSome(value.text) THEN LengthErrors(Unwrap(value.text), "over text length")
            ELSE {}
      [] shape = "CreateLabel" -> LengthErrors(value.name, "Over name length")

\* the gate without its call of validate
from_request_Unvalidated(shape, body) == Deserialize(shape, body)

\* the gate reporting a violated rule with the message of a parse failure
from_request_OneMessage(shape, body) ==
    LET parsed == Deserialize(shape, body)
    IN IF ~IsOk(parsed) THEN parsed
       ELSE IF Validate(shape, parsed.val) /= {}
            THEN Rejection("Json parse error", {})
            ELSE parsed

\* ValidatedJson::<T>::from_request
from_request(shape, body) ==
    LET parsed == Deserialize(shape, body)
    IN IF ~IsOk(parsed) THEN parsed
       ELSE IF Validate(shape, parsed.val) /= {}
            THEN Rejection("Validation error", Validate(shape, parsed.val))
            ELSE parsed

\* what a handler leaves behind: the database, whether the repository was
\* called and with what outcome, and the status of the response ("panic" when
\* the handler task panics and no response is written)
Handled(d, called, ret, status) ==
    [db |-> d, called |-> called, ret |-> ret, status |-> status]

\* the extractor rejected the request: the handler body does not run
Rejected(d, extracted) == Handled(d, FALSE, NoRet, extracted.status)

\* .or(Err(status))? / .unwrap_or(status) on the repository's Result
Respond(ret, ok, err) ==
    IF ret = Panic THEN "panic" ELSE IF IsOk(ret) THEN ok ELSE err

\* handlers::todo
create_todo(d, extracted) ==
    IF ~IsOk(extracted) THEN Rejected(d, extracted)
    ELSE LET r == DbTodoCreate(d, extracted.val)
         IN Handled(r.db, TRUE, r.ret, Respond(r.ret, "CREATED", "NOT_FOUND"))

find_todo(d, id) ==
    LET ret == DbTodoFind(d, id)
    IN Handled(d, TRUE, ret, Respond(ret, "OK", "NOT_FOUND"))

all_todo(d) ==
    LET ret == DbTodoAll(d)
    IN Handled(d, TRUE, ret, Respond(ret, "OK", "panic"))

update_todo(d, id, extracted) ==
    IF ~IsOk(extracted) THEN Rejected(d, extracted)
    ELSE LET r == DbTodoUpdate(d, id, extracted.val)
         IN Handled(r.db, TRUE, r.ret, Respond(r.ret, "CREATED", "NOT_FOUND"))

delete_todo(d, id) ==
    LET r == DbTodoDelete(d, id)
    IN Handled(r.db, TRUE, r.ret, Respond(r.ret, "NO_CONTENT", "NOT_FOUND"))

\* handlers::label
create_label(d, extracted) ==
    IF ~IsOk(extracted) THEN Rejected(d, extracted)
    ELSE LET r == DbLabelCreate(d, extracted.val)
         IN Handled(r.db, TRUE, r.ret, Respond(r.ret, "CREATED", "NOT_FOUND"))

all_label(d) ==
    LET ret == DbLabelAll(d)
    IN Handled(d, TRUE, ret, Respond(ret, "OK", "panic"))

delete_label(d, id) ==
    LET r == DbLabelDelete(d, id)
    IN Handled(r.db, TRUE, r.ret, Respond(r.ret, "NO_CONTENT", "INTERNAL_SERVER_ERROR"))

\* ------------------------------ sequential requests to the application
InitHttp ==
    /\ backend = "db"
    /\ db = EmptyDb
    /\ todoStore = EmptyStore
    /\ labelStore = EmptyStore
    /\ last = NoCall
    /\ rows = <<>>
    /\ folded = NotFolded
    /\ pc = [c \in Callers |-> "idle"]
    /\ call = [c \in Callers |-> <<>>]
    /\ lock = FreeLock
    /\ pool = PoolSize
    /\ max_connections = PoolSize

\* one request served: the route, the path id, the body, what the extractor
\* made of the body, and what the handler left behind
HttpStep(route, id, body, extracted, h) ==
    /\ db' = h.db
    /\ last' = [op |-> route, id |-> id, payload |-> body, gate |-> extracted,
                called |-> h.called, ret |-> h.ret, status |-> h.status]
    /\ UNCHANGED <<backend, todoStore, labelStore, foldVars, raceVars, syncVars>>

NotGated == [tag |-> "None"]

PostTodos ==
    \E body \in RawCreateTodo :
        LET extracted == from_request("CreateTodo", body)
        IN /\ IsOk(extracted) => db.todo_seq <= MaxTodoId
           /\ HttpStep("POST /todos", 0, body, extracted, create_todo(db, extracted))

GetTodo ==
    \E id \in TodoIds : HttpStep("GET /todos/:id", id, <<>>, NotGated, find_todo(db, id))

GetTodos == HttpStep("GET /todos", 0, <<>>, NotGated, all_todo(db))

PatchTodo ==
    \E id \in TodoIds, body \in RawUpdateTodo :
        LET extracted == from_request("UpdateTodo", body)
        IN HttpStep("PATCH /todos/:id", id, body, extracted, update_todo(db, id, extracted))

DeleteTodo ==
    \E id \in TodoIds : HttpStep("DELETE /todos/:id", id, <<>>, NotGated, delete_todo(db, id))

PostLabels ==
    \E body \in RawCreateLabel :
        LET extracted == from_request("CreateLabel", body)
        IN /\ (IsOk(extracted) /\ ~IsSome(SelectLabelByName(db, extracted.val.name)))
                 => db.label_seq <= MaxLabelId
           /\ HttpStep("POST /labels", 0, body, extracted, create_label(db, extracted))

GetLabels == HttpStep("GET /labels", 0, <<>>, NotGated, all_label(db))

DeleteLabel ==
    \E id \in LabelIds : HttpStep("DELETE /labels/:id", id, <<>>, NotGated, delete_label(db, id))

NextHttp ==
    \/ PostTodos \/ GetTodo \/ GetTodos \/ PatchTodo \/ DeleteTodo
    \/ PostLabels \/ GetLabels \/ DeleteLabel

SpecHttp == InitHttp /\ [][NextHttp]_vars

\* ================================================================ claims
AssociatedIds(d, id) == {d.todo_labels[k].label_id :
                            k \in {j \in 1..Len(d.todo_labels) : d.todo_labels[j].todo_id = id}}
Range(s) == {s[k] : k \in 1..Len(s)}

\* what find(id) returns in the present state of the backend in use
CurrentTodoFind(id) ==
    IF backend = "db" THEN DbTodoFind(db, id) ELSE MemTodoFind(todoStore, id)

\* C1: when create(cmd) has just returned a Todo t, find(t.id) issued next
\* returns a Todo equal to t, on the relational and on the in-memory backend.
C1_RoundTrip ==
    (last.op = "todo.create" /\ IsOk(last.ret))
        => CurrentTodoFind(last.ret.val.id) = Ok(last.ret.val)

C1_Witness ==
    /\ backend = "db"
    /\ last.op = "todo.create"
    /\ IsOk(last.ret)
    /\ Len(last.ret.val.labels) = 2

FoldDone == folded.tag /= "None"
NonNull(row) == IsSome(row.label_id) /\ IsSome(row.label_name)
IsNull(row) == row.label_id = None /\ row.label_name = None
RowLabel(row) == Label(Unwrap(row.label_id), Unwrap(row.label_name))
RowsOf(i) == SelectSeq(rows, LAMBDA r : r.id = i)
LabelsOfRows(rs) ==
    LET nn == SelectSeq(rs, NonNull) IN [k \in 1..Len(nn) |-> RowLabel(nn[k])]
FirstSeen(i) ==
    CHOOSE k \in 1..Len(rows) : rows[k].id = i /\ \A j \in 1..(k - 1) : rows[j].id /= i

\* C2: for every row sequence fold_entities returns one aggregate per distinct
\* todo id, in the order the ids are first seen, each with the non-null labels
\* of its rows in row order.
C2_FoldGroupsRows ==
    FoldDone =>
        /\ IsOk(folded)
        /\ LET out == folded.val
           IN /\ {out[k].id : k \in 1..Len(out)} = {rows[k].id : k \in 1..Len(rows)}
              /\ \A a, b \in 1..Len(out) :
                    a < b => /\ out[a].id /= out[b].id
                             /\ FirstSeen(out[a].id) < FirstSeen(out[b].id)
              /\ \A k \in 1..Len(out) : out[k].labels = LabelsOfRows(RowsOf(out[k].id))

\* C3: when the last row's todo id matches an aggregate already folded from the
\* rows before it, the fold appends a Label if the row's label fields are
\* non-null, and with null label fields it completes with the aggregates as
\* they were, without panicking.
C3_MatchingRow ==
    (FoldDone /\ rows /= <<>>) =>
        LET n == Len(rows)
            acc == fold_entities(SubSeq(rows, 1, n - 1))
            k == IF IsOk(acc) THEN FirstIndex(acc.val, rows[n].id) ELSE 0
        IN k /= 0 =>
            /\ NonNull(rows[n]) =>
                  folded = Ok([acc.val EXCEPT ![k].labels = Append(@, RowLabel(rows[n]))])
            /\ IsNull(rows[n]) => folded = acc

Dangling(d) ==
    \E k \in 1..Len(d.todo_labels) :
        \A j \in 1..Len(d.labels) : d.labels[j].id /= d.todo_labels[k].label_id
RepeatedAssociation(d) ==
    \E j, k \in 1..Len(d.todo_labels) : j /= k /\ d.todo_labels[j] = d.todo_labels[k]

\* C4: when a label is deleted through the Label repository while no
\* association row dangles yet, find(id) of every stored todo and all() still
\* return normally afterwards, also for a todo that keeps other labels.
C4_DanglingTolerated ==
    [][(backend = "db" /\ last'.op = "label.delete"
            /\ ~Dangling(db) /\ ~RepeatedAssociation(db))
          => /\ IsOk(DbTodoAll(db'))
             /\ \A k \in 1..Len(db'.todos) : IsOk(DbTodoFind(db', db'.todos[k].id))]_vars

\* C5: a successful update(id, cmd) returns what is then stored, and every
\* field absent from cmd (text, completed, labels) has in it the value find(id)
\* gave before the call; a field present in cmd has the value given.
C5_PartialUpdate ==
    (last.op = "todo.update" /\ IsOk(last.ret)) =>
        LET old == last.pre.val
            new == last.ret.val
            cmd == last.payload
        IN /\ CurrentTodoFind(last.id) = last.ret
           /\ new.id = last.id
           /\ new.text = UnwrapOr(cmd.text, old.text)
           /\ new.completed = UnwrapOr(cmd.completed, old.completed)
           /\ cmd.labels = None => new.labels = old.labels

C5_Witness ==
    /\ backend = "db"
    /\ last.op = "todo.update"
    /\ IsOk(last.ret)
    /\ last.payload = [text |-> None, completed |-> Some(TRUE), labels |-> None]
    /\ last.pre.val.completed = FALSE
    /\ last.ret.val.text = "x"
    /\ Len(last.ret.val.labels) = 2

\* C6: when update(id, cmd) on a stored todo carries labels, the label ids
\* associated with the todo after the call are exactly the given ones, and
\* with labels = [] the returned todo has no labels.
C6_LabelsReplaced ==
    (backend = "db" /\ last.op = "todo.update" /\ IsOk(last.pre)
        /\ IsSome(last.payload.labels)) =>
        /\ AssociatedIds(db, last.id) = Range(Unwrap(last.payload.labels))
        /\ Unwrap(last.payload.labels) = <<>> =>
              (IsOk(last.ret) /\ last.ret.val.labels = <<>>)

C6_Witness ==
    /\ backend = "db"
    /\ last.op = "todo.update"
    /\ IsOk(last.pre)
    /\ Len(last.pre.val.labels) = 2
    /\ last.payload.labels = Some(<<>>)
    /\ IsOk(last.ret)
    /\ last.ret.val.labels = <<>>

\* C7: a Label create on the relational backend whose name a stored label
\* already has fails with Duplicate carrying that label's id and leaves the
\* labels table as it was.
C7_DuplicateName ==
    (backend = "db" /\ last.op = "label.create") =>
        \A k \in 1..Len(last.pre) :
            last.pre[k].name = last.payload.name =>
                /\ last.ret = Duplicate(last.pre[k].id)
                /\ db.labels = last.pre

C7_Witness ==
    /\ backend = "db"
    /\ last.op = "label.create"
    /\ last.pre /= <<>>
    /\ last.ret = Duplicate(last.pre[1].id)

\* C8: no two labels stored in the in-memory Label store have the same name.
C8_MemoryNamesUnique ==
    backend = "memory.label" =>
        \A i, j \in DOMAIN labelStore :
            i /= j => labelStore[i].name /= labelStore[j].name

\* C9: under any interleaving of concurrent Label create calls on the
\* relational backend, at most one stored label has a given name.
C9_NamesUniqueConcurrent ==
    \A j, k \in 1..Len(db.labels) :
        j /= k => db.labels[j].name /= db.labels[k].name

\* C10: after a successful delete(id) on the relational backend find(id)
\* fails with NotFound, todos has no row with that id and todo_labels has no
\* row with that todo_id.
C10_DeleteCascade ==
    (backend = "db" /\ last.op = "todo.delete" /\ IsOk(last.ret)) =>
        /\ DbTodoFind(db, last.id) = NotFound(last.id)
        /\ TodoRows(db, last.id) = <<>>
        /\ AssociationRows(db, last.id) = <<>>

C10_Witness ==
    /\ backend = "db"
    /\ last.op = "todo.delete"
    /\ IsOk(last.ret)
    /\ IsOk(last.pre)
    /\ Len(last.pre.val.labels) = 2

\* C11: when the association write of a relational create or update fails
\* after the write of the todos row succeeded, the call fails and the todos
\* and todo_labels tables are as they were before the call.
C11_AtomicWrite ==
    (last.op \in {"todo.create", "todo.update"}
        /\ last.fault \in {"delete.todo_labels", "insert.todo_labels"}) =>
        /\ ~IsOk(last.ret)
        /\ db.todos = last.pre.todos
        /\ db.todo_labels = last.pre.todo_labels

\* C12: after a delete(id), returned with success or with a failure, the
\* todos row of id and its association rows are either all as they were
\* before the call or all gone.
C12_DeleteIsOneUnit ==
    last.op = "todo.delete" =>
        \/ /\ TodoRows(db, last.id) = TodoRows(last.pre, last.id)
           /\ AssociationRows(db, last.id) = AssociationRows(last.pre, last.id)
        \/ /\ TodoRows(db, last.id) = <<>>
           /\ AssociationRows(db, last.id) = <<>>

\* C13: a todo delete(id) for an id that find(id) reports as not stored
\* fails with NotFound, on the relational and on the in-memory backend.
C13_DeleteMissing ==
    (last.op = "todo.delete" /\ last.pre = NotFound(last.id))
        => last.ret = NotFound(last.id)

\* C14: an update(id, cmd) for an id that find(id) reports as not stored fails
\* with NotFound, and afterwards find(id) still reports NotFound and the
\* backend holds no todos row, association row or map entry for the id.
C14_UpdateMissing ==
    (last.op = "todo.update" /\ last.pre = NotFound(last.id)) =>
        /\ last.ret = NotFound(last.id)
        /\ CurrentTodoFind(last.id) = NotFound(last.id)
        /\ backend = "db" =>
              (TodoRows(db, last.id) = <<>> /\ AssociationRows(db, last.id) = <<>>)
        /\ backend /= "db" => last.id \notin DOMAIN todoStore

C14_Witness ==
    /\ backend = "db"
    /\ last.op = "todo.update"
    /\ last.payload = [text |-> Some("y"), completed |-> Some(TRUE), labels |-> Some(<<1, 2>>)]
    /\ last.pre = NotFound(1)
    /\ last.ret = NotFound(1)
    /\ db.todo_seq = 2

\* the ids the backend in use holds, each returned by an earlier create
StoredTodoIds ==
    IF backend = "db" THEN {db.todos[k].id : k \in 1..Len(db.todos)} ELSE DOMAIN todoStore
StoredLabelIds ==
    IF backend = "db" THEN {db.labels[k].id : k \in 1..Len(db.labels)} ELSE DOMAIN labelStore

\* C15: the id a successful create returns is strictly greater than every id
\* an earlier create on the same store returned and the store still holds, for
\* todos and for labels, so no id is issued twice.
C15_IdsNeverReused ==
    [][/\ (last'.op = "todo.create" /\ IsOk(last'.ret))
            => \A i \in StoredTodoIds : i < last'.ret.val.id
       /\ (last'.op = "label.create" /\ IsOk(last'.ret))
            => \A i \in StoredLabelIds : i < last'.ret.val.id]_vars

\* the stored labels a list of label ids identifies
StoredLabels ==
    IF backend = "db" THEN Range(db.labels) ELSE {labelStore[i] : i \in DOMAIN labelStore}
LabelsIdentifiedBy(label_ids) == {l \in StoredLabels : l.id \in Range(label_ids)}

\* C16: the Todo a successful create(cmd) returns has as labels exactly the
\* stored labels whose ids cmd.labels lists, on every backend.
C16_CreateHydrated ==
    (last.op = "todo.create" /\ IsOk(last.ret))
        => Range(last.ret.val.labels) = LabelsIdentifiedBy(last.payload.labels)

\* a store as constructed: no todo stored and, in the database, no id issued
FreshTodoStore ==
    IF backend = "db" THEN db.todos = <<>> /\ db.todo_seq = 1
    ELSE todoStore = EmptyStore

\* what find(id) returns once the step has been taken
TodoFindAfter(id) ==
    IF backend = "db" THEN DbTodoFind(db', id) ELSE MemTodoFind(todoStore', id)

\* C17: a successful create(cmd) returns a Todo whose id no stored Todo had
\* before the call, with text = cmd.text and completed = false, and that Todo
\* is what find(id) then returns; the first create on a fresh store returns id 1.
C17_CreateStoresNew ==
    [][(last'.op = "todo.create" /\ IsOk(last'.ret)) =>
          /\ last'.ret.val.id \notin StoredTodoIds
          /\ last'.ret.val.text = last'.payload.text
          /\ last'.ret.val.completed = FALSE
          /\ TodoFindAfter(last'.ret.val.id) = last'.ret
          /\ FreshTodoStore => last'.ret.val.id = 1]_vars

\* C18: the sequence a todo all() returns holds every stored Todo exactly
\* once and its ids are strictly descending, on every backend.
C18_TodoAllDescending ==
    (last.op = "todo.all" /\ IsOk(last.ret)) =>
        LET out == last.ret.val
        IN /\ {out[k].id : k \in 1..Len(out)} = StoredTodoIds
           /\ \A k \in 1..Len(out) : CurrentTodoFind(out[k].id) = Ok(out[k])
           /\ \A j, k \in 1..Len(out) : j < k => out[j].id > out[k].id

\* C19: the sequence a label all() returns holds every stored Label exactly
\* once and its ids are strictly ascending, on every backend.
C19_LabelAllAscending ==
    (last.op = "label.all" /\ IsOk(last.ret)) =>
        LET out == last.ret.val
        IN /\ Range(out) = StoredLabels
           /\ \A j, k \in 1..Len(out) : j < k => out[j].id < out[k].id

RepeatsLabelId(todo) ==
    \E j, k \in 1..Len(todo.labels) : j /= k /\ todo.labels[j].id = todo.labels[k].id

\* C20: no Todo returned by create, find, update or all has two labels with
\* the same id, whatever label id list the command carried.
C20_NoRepeatedLabel ==
    /\ (last.op \in {"todo.create", "todo.find", "todo.update"} /\ IsOk(last.ret))
          => ~RepeatsLabelId(last.ret.val)
    /\ (last.op = "todo.all" /\ IsOk(last.ret))
          => \A k \in 1..Len(last.ret.val) : ~RepeatsLabelId(last.ret.val[k])

InRead(c) == pc[c] \in {"locked", "done"} /\ call[c].op \in ReadOps
InWrite(c) == pc[c] \in {"locked", "inserting", "done"} /\ call[c].op \in WriteOps

\* C21: what an all() on the in-memory store has read is the whole content
\* of the store as it is before or after any create, never a content with an
\* entry whose insertion is under way.
C21_AllReadsAtomically ==
    \A c \in Callers :
        (pc[c] = "done" /\ call[c].op = "all") =>
            /\ \A k \in 1..Len(call[c].ret.val) :
                  call[c].ret.val[k] /= PartiallyInserted(call[c].ret.val[k].id)
            /\ \A w \in Callers : pc[w] /= "inserting"
            /\ call[c].ret.val \in ValuesOrders(todoStore)

C21_Witness ==
    /\ pc[1] = "done" /\ call[1].op = "all" /\ Len(call[1].ret.val) = 2
    /\ pc[2] = "lock" /\ call[2].op = "create"

\* C22: while an operation is inside a write critical section no other
\* operation is inside a read or write critical section.
C22_WriterExcludesAll ==
    \A c, d \in Callers :
        (c /= d /\ InWrite(c)) => (~InWrite(d) /\ ~InRead(d))

C22_Witness ==
    /\ InRead(1) /\ InRead(2)
    /\ pc[1] = "done" /\ pc[2] = "done"
    /\ StoreLen(todoStore) = 2

Holders == lock.readers \cup ({lock.writer} \ {0})
Running(c) == pc[c] \in {"locked", "inserting", "done"}

\* what grants the lock to the operation thread c is waiting with
Grantable(c) ==
    IF call[c].op \in ReadOps THEN ReadAvailable(lock) ELSE WriteAvailable(lock)

\* C23 (as stated): under fair scheduling every started operation returns,
\* and an operation that has returned holds no guard of the lock.
C23_OperationsComplete ==
    \A c \in Threads :
        /\ (pc[c] /= "idle") ~> (pc[c] = "idle")
        /\ [](pc[c] = "idle" => c \notin Holders)

\* C23 (amended): an operation that has acquired the lock can always take
\* its next step, up to its return, so under fair scheduling it returns; an
\* operation that has returned holds no guard; and an operation waits for
\* the lock only while an operation that is running holds a guard that bars
\* it.  The wait itself has no bound.
C23_HoldersComplete ==
    \A c \in Threads :
        /\ Running(c) => ENABLED MemProceed(c)
        /\ pc[c] = "idle" => c \notin Holders
        /\ (pc[c] = "lock" /\ ~Grantable(c)) =>
               \E d \in Holders : d /= c /\ Running(d)

C23_Witness ==
    /\ pc[1] = "lock" /\ call[1].op = "delete"
    /\ pc[2] = "done" /\ call[2].op = "find"
    /\ 2 \in lock.readers

GatedRoutes == {"POST /todos", "PATCH /todos/:id", "POST /labels"}

\* the strings of a request body that carry a length constraint
ConstrainedTexts(route, body) ==
    CASE route = "POST /todos" -> {body.text}
      [] route = "PATCH /todos/:id" -> {body.text} \ {None}
      [] route = "POST /labels" -> {body.name}

\* the body has the shape of the route's command
Parses(route, body) ==
    /\ body /= Malformed
    /\ route = "POST /todos" => (IsSome(body.text) /\ IsSome(body.labels))
    /\ route = "POST /labels" => IsSome(body.name)

\* and its constrained strings have 1..100 characters
Acceptable(route, body) ==
    /\ Parses(route, body)
    /\ \A t \in ConstrainedTexts(route, body) : Len(Unwrap(t)) \in MinLength..MaxLength

\* C24: a request on a route with a validated body reaches the repository
\* only if the body parses and meets every length constraint; a request that
\* does not is answered without a repository call and leaves the database as
\* it was.
C24_GateGuardsRepository ==
    [][last'.op \in GatedRoutes =>
          /\ last'.called => Acceptable(last'.op, last'.payload)
          /\ ~Acceptable(last'.op, last'.payload) =>
                (~last'.called /\ db' = db /\ last'.status = "BAD_REQUEST")]_vars

C24_Witness ==
    /\ last.op = "PATCH /todos/:id"
    /\ last.payload /= Malformed
    /\ last.payload.text = Some(Repeat("x", MaxLength + 1))
    /\ last.payload.completed = Some(TRUE)
    /\ ~last.called
    /\ DbTodoFind(db, 1) = Ok(TodoEntity(1, Repeat("x", MaxLength), FALSE, <<>>))

\* C25: a body that does not parse is rejected with the parse failure and
\* no rule; a body that parses but violates a length constraint is rejected
\* with the validation failure and the message of each violated rule.
C25_FailuresDistinguished ==
    last.op \in GatedRoutes =>
        /\ ~Parses(last.op, last.payload) =>
              (last.gate.tag = "Rejected" /\ last.gate.message = "Json parse error"
                  /\ last.gate.rules = {})
        /\ (Parses(last.op, last.payload) /\ ~Acceptable(last.op, last.payload)) =>
              /\ last.gate.tag = "Rejected"
              /\ last.gate.message = "Validation error"
              /\ last.gate.rules /= {}
              /\ \A t \in ConstrainedTexts(last.op, last.payload) :
                    /\ Len(Unwrap(t)) < MinLength => "Can not be empty" \in last.gate.rules
                    /\ Len(Unwrap(t)) > MaxLength =>
                          \E m \in {"Over text length", "over text length", "Over name length"} :
                              m \in last.gate.rules

C25_Witness ==
    /\ last.op = "POST /todos"
    /\ last.payload /= Malformed
    /\ last.payload.text = Some("")
    /\ last.payload.labels = Some(<<>>)
    /\ last.gate = Rejection("Validation error", {"Can not be empty"})

\* C26: on every route a repository error NotFound is answered NOT_FOUND, a
\* Duplicate CONFLICT and any other error INTERNAL_SERVER_ERROR, and no
\* repository error makes the handler panic.
C26_ErrorClasses ==
    (last.op /= "none" /\ last.called /\ last.ret.tag = "Err") =>
        last.status = CASE last.ret.kind = "NotFound" -> "NOT_FOUND"
                        [] last.ret.kind = "Duplicate" -> "CONFLICT"
                        [] OTHER -> "INTERNAL_SERVER_ERROR"

\* the callers whose running call has a connection checked out for tx
HoldingTx == {c \in Callers : call[c].tx}

\* C27: a relational create, update or delete that has returned, with
\* success or with an error at any statement, has no connection checked out:
\* the idle connections are all but those held by calls still running.
C27_ConnectionsReturned ==
    /\ \A c \in Callers : pc[c] = "idle" => ~call[c].tx
    /\ pool + Cardinality(HoldingTx) = max_connections

C27_Witness ==
    /\ pc[1] = "idle" /\ call[1].op = "update" /\ call[1].ret = Unexpected
    /\ IsOk(call[1].old_todo)
    /\ pc[2] = "delete.todos" /\ call[2].tx
    /\ pool = max_connections - 1

\* C28: an in-memory create adds exactly one entry and leaves every entry
\* stored before the call stored and unchanged under its id, in the Todo and
\* in the Label store.
C28_CreateKeepsEntries ==
    [][/\ (backend /= "db" /\ last'.op = "todo.create") =>
             /\ StoreLen(todoStore') = StoreLen(todoStore) + 1
             /\ \A k \in DOMAIN todoStore :
                   k \in DOMAIN todoStore' /\ todoStore'[k] = todoStore[k]
       /\ (backend /= "db" /\ last'.op = "label.create") =>
             /\ StoreLen(labelStore') = StoreLen(labelStore) + 1
             /\ \A k \in DOMAIN labelStore :
                   k \in DOMAIN labelStore' /\ labelStore'[k] = labelStore[k]]_vars

TextOnly == [text |-> Some("y"), completed |-> None, labels |-> None]
CompletedOnly == [text |-> None, completed |-> Some(TRUE), labels |-> None]

\* C29: once an update setting only text and an update setting only
\* completed, both of todo 1, have both returned successfully, the stored
\* todo has the new text and the new completed, however their statements
\* interleaved.
C29_NoLostUpdate ==
    \A c, d \in Callers :
        (/\ pc[c] = "idle" /\ call[c].op = "update" /\ call[c].payload = TextOnly
         /\ pc[d] = "idle" /\ call[d].op = "update" /\ call[d].payload = CompletedOnly
         /\ call[c].id = call[d].id
         /\ IsOk(call[c].ret) /\ IsOk(call[d].ret)
         /\ TodoRows(db, call[c].id) /= <<>>) =>
            /\ TodoRows(db, call[c].id)[1].text = "y"
            /\ TodoRows(db, call[c].id)[1].completed = TRUE

\* the statements that need a connection of their own
AtStatement(c) ==
    pc[c] \notin {"idle", "create.begin", "update.begin", "delete.begin",
                  "create.commit", "update.commit", "delete.commit"}

\* C30: no relational write waits for a second connection while it holds
\* one: a call that holds the connection of its transaction never finds the
\* pool empty when it needs a connection for a statement.
C30_NoHoldAndWait ==
    \A c \in Callers : (call[c].tx /\ AtStatement(c)) => pool > 0

\* C31: whatever way the statements of concurrent relational create, update
\* and delete calls interleave, every todo_labels row names a todo that has
\* a row in todos.
C31_NoOrphanAssociations ==
    \A k \in 1..Len(db.todo_labels) : TodoRows(db, db.todo_labels[k].todo_id) /= <<>>

InMemoryCall(ops) == backend /= "db" /\ last'.op \in ops

\* C32: an in-memory find, update or delete of a Todo, or delete of a Label,
\* that returns NotFound leaves both stores as they were before the call.
C32_FailureChangesNothing ==
    [][(/\ InMemoryCall({"todo.find", "todo.update", "todo.delete", "label.delete"})
        /\ last'.ret = NotFound(last'.id)) =>
            (todoStore' = todoStore /\ labelStore' = labelStore)]_vars

C32_Witness ==
    /\ backend = "memory.todo"
    /\ last.op = "todo.update" /\ last.ret = NotFound(2)
    /\ IsSome(last.payload.text)
    /\ DOMAIN todoStore = {1}

KeysAreIds(store) == \A k \in DOMAIN store : store[k].id = k
OthersKept(before, after, id) ==
    \A k \in DOMAIN before \ {id} : k \in DOMAIN after /\ after[k] = before[k]

\* C33: a successful in-memory update keeps the set of stored ids, a
\* successful delete removes exactly the id given, both leave every entry
\* with another id unchanged, and every entity is stored under its own id.
C33_OnlyTargetTouched ==
    [][/\ (InMemoryCall({"todo.update"}) /\ IsOk(last'.ret)) =>
             /\ DOMAIN todoStore' = DOMAIN todoStore
             /\ OthersKept(todoStore, todoStore', last'.id)
             /\ labelStore' = labelStore
       /\ (InMemoryCall({"todo.delete"}) /\ IsOk(last'.ret)) =>
             /\ last'.id \in DOMAIN todoStore
             /\ DOMAIN todoStore' = DOMAIN todoStore \ {last'.id}
             /\ OthersKept(todoStore, todoStore', last'.id)
             /\ labelStore' = labelStore
       /\ (InMemoryCall({"label.delete"}) /\ IsOk(last'.ret)) =>
             /\ last'.id \in DOMAIN labelStore
             /\ DOMAIN labelStore' = DOMAIN labelStore \ {last'.id}
             /\ OthersKept(labelStore, labelStore', last'.id)
             /\ todoStore' = todoStore
       /\ backend /= "db" => (KeysAreIds(todoStore') /\ KeysAreIds(labelStore'))]_vars

C33_Witness ==
    /\ backend = "memory.todo"
    /\ last.op = "todo.delete" /\ last.id = 1 /\ IsOk(last.ret)
    /\ DOMAIN todoStore = {2}
    /\ todoStore[2].text = "y"

====
